---- MODULE Spec2Model ----
(***************************************************************************)
(* Scraper orchestration and ingestion pipeline of crystal_2               *)
(* (server/services/scraper.service.ts, server/db/schema.ts,               *)
(* server/routes/jobs.routes.ts).                                          *)
(*                                                                         *)
(* The store is SQLite: two tables, jobs (Listings) and scraper_runs       *)
(* (RunRecords).  Every `await` of the TypeScript source is one step of    *)
(* the calling async function; steps of different calls interleave.        *)
(* Time is counted in ticks, TicksPerMinute of them to the minute, so that *)
(* the fractional minutes of canRunScraper and its Math.ceil are exact.    *)
(***************************************************************************)
EXTENDS Integers, Sequences, FiniteSets, TLC

\* ------------------------------------------------------------------ bounds
\* Run calls started in one behaviour (manual triggers and timer fires).
MaxRuns == 2
\* Times the clock advances in one behaviour.
MaxTicks == 1
\* Storage operations that fail in one behaviour.
MaxFaults == 1
\* Host crashes in one behaviour.
MaxCrashes == 1
\* Longest record list the external process returns to a Run.
MaxReported == 1
\* Longest record list handed to upsertJobs when it is called on its own.
MaxBatch == 2
\* upsertJobs calls made on their own in one behaviour.
MaxCalls == 2
\* Run calls started in one behaviour of the scheduler on its own.
MaxSchedRuns == 3
\* Longest scraper_runs table canRunScraper is asked about on its own.
MaxLedger == 2
\* Run calls started in one behaviour of a single cycle followed to its end.
MaxCycleRuns == 2

\* --------------------------------------------------------- program constants
\* const MIN_INTERVAL_HOURS = parseInt(process.env.MIN_SCRAPER_INTERVAL_HOURS || '2')
MIN_INTERVAL_HOURS == 2
\* minutes are (ms difference) / (1000 * 60); a tick is 1/TicksPerMinute minute
TicksPerMinute == 2
\* getScraperStatus: const requiredMinutes = 60
StatusRequiredMinutes == 60
\* getScraperStatus, the copy in server/index.ts: const requiredMinutes = 120
ServerStatusRequiredMinutes == 120

Minutes(m) == m * TicksPerMinute

\* SQL NULL of a timestamp column and of a text column
NullTime == -1
NullText == "NULL"

Sources == {"linkedin", "stepstone", "all"}
ConcreteSources == {"linkedin", "stepstone"}
Keywords == {"embedded"}
Procs == {1, 2}

\* const sources = source === 'all' ? ['linkedin', 'stepstone'] : [source]
ExpandSources(source) ==
    IF source = "all" THEN <<"linkedin", "stepstone">> ELSE <<source>>

\* The records the external process can report: a URL lives on one site, and
\* the process called with --source=s reports records of the sites s names.
ScrapedJobs ==
    { [url |-> "li/1", source |-> "linkedin"],
      [url |-> "li/2", source |-> "linkedin"],
      [url |-> "st/1", source |-> "stepstone"] }

Urls == { j.url : j \in ScrapedJobs }

Range(s) == { s[i] : i \in DOMAIN s }

SeqsUpTo(S, n) == UNION { [1..k -> S] : k \in 0..n }

BatchesOf(source, n) ==
    SeqsUpTo({ j \in ScrapedJobs : j.source \in Range(ExpandSources(source)) }, n)

\* ------------------------------------------------------------ CooldownGate
\* mutant: the lookup without the status filter
LastOfSource(ledger, source) ==
    LET done == { i \in DOMAIN ledger : ledger[i].source = source }
    IN  IF done = {} THEN <<>>
        ELSE <<ledger[CHOOSE i \in done :
                        \A k \in done : ledger[k].completedAt <= ledger[i].completedAt]>>

\* mutant: the lookup takes every closed record, failed ones too
LastFinished(ledger, source) ==
    LET done == { i \in DOMAIN ledger :
                    ledger[i].source = source /\ ledger[i].status # "running" }
    IN  IF done = {} THEN <<>>
        ELSE <<ledger[CHOOSE i \in done :
                        \A k \in done : ledger[k].completedAt <= ledger[i].completedAt]>>

\* select from scraper_runs where source = ? and status = 'completed'
\* order by completed_at desc limit 1
LastCompleted(ledger, source) ==
    LET done == { i \in DOMAIN ledger :
                    ledger[i].source = source /\ ledger[i].status = "completed" }
    IN  IF done = {} THEN <<>>
        ELSE <<ledger[CHOOSE i \in done :
                        \A k \in done : ledger[k].completedAt <= ledger[i].completedAt]>>

\* mutant: Math.floor in place of Math.ceil
FloorMinutes(x) == x \div TicksPerMinute

\* Math.ceil(x / TicksPerMinute) for x >= 0
CeilMinutes(x) == (x + TicksPerMinute - 1) \div TicksPerMinute

\* The cooldown computation shared by canRunScraper and getScraperStatus.
Cooldown(last, t, requiredMinutes) ==
    IF last = <<>> \/ last[1].completedAt = NullTime
    THEN [canRun |-> TRUE, minutesUntilNext |-> 0]
    ELSE LET since == t - last[1].completedAt
         IN  IF since < Minutes(requiredMinutes)
             THEN [canRun |-> FALSE,
                   minutesUntilNext |-> CeilMinutes(Minutes(requiredMinutes) - since)]
             ELSE [canRun |-> TRUE, minutesUntilNext |-> 0]

canRunScraper(ledger, source, t) ==
    Cooldown(LastCompleted(ledger, source), t, MIN_INTERVAL_HOURS * 60)

\* status[source] = { source, lastRun, canRun, minutesUntilNextRun }
StatusOf(ledger, source, t, requiredMinutes) ==
    LET last == LastCompleted(ledger, source)
        cd   == Cooldown(last, t, requiredMinutes)
    IN  [source |-> source, lastRun |-> last, canRun |-> cd.canRun,
         minutesUntilNextRun |-> cd.minutesUntilNext]

\* getScraperStatus(): for (const source of ['linkedin', 'stepstone']) ...
getScraperStatus(ledger, t) ==
    [s \in ConcreteSources |-> StatusOf(ledger, s, t, StatusRequiredMinutes)]

\* getScraperStatus() of server/index.ts
getScraperStatusServer(ledger, t) ==
    [s \in ConcreteSources |-> StatusOf(ledger, s, t, ServerStatusRequiredMinutes)]

\* ---------------------------------------------------------- IngestionEngine
\* mutant: the clearing update matches no row
ClearFreshOfNothing(store, source) == store

\* update jobs set is_new_in_last_hour = false where source = ?
ClearFresh(store, source) ==
    [ i \in DOMAIN store |->
        IF store[i].source = source THEN [store[i] EXCEPT !.isNew = FALSE]
        ELSE store[i] ]

\* select from jobs where url = ? limit 1; existing.length > 0
Existing(store, url) == \E i \in DOMAIN store : store[i].url = url

\* mutant: the update of a re-sighted row sets first_seen as the insert does
UpdateSeenResetsFirst(store, url, t) ==
    [ i \in DOMAIN store |->
        IF store[i].url = url
        THEN [store[i] EXCEPT !.firstSeen = t, !.lastSeen = t, !.isNew = FALSE,
                              !.updatedAt = t]
        ELSE store[i] ]

\* mutant: the update of a re-sighted row leaves is_new_in_last_hour alone
UpdateSeenKeepsFresh(store, url, t) ==
    [ i \in DOMAIN store |->
        IF store[i].url = url
        THEN [store[i] EXCEPT !.lastSeen = t, !.updatedAt = t]
        ELSE store[i] ]

\* update jobs set last_seen, is_new_in_last_hour = false, updated_at where url = ?
UpdateSeen(store, url, t) ==
    [ i \in DOMAIN store |->
        IF store[i].url = url
        THEN [store[i] EXCEPT !.lastSeen = t, !.isNew = FALSE, !.updatedAt = t]
        ELSE store[i] ]

\* mutant: the url column without its unique constraint
NoUniqueConstraint(store, url) == FALSE

\* url: text('url').notNull().unique(): the insert throws when the URL is stored
UniqueViolation(store, url) == \E i \in DOMAIN store : store[i].url = url

\* db.insert(jobs).values({...}); cyc (not a column) notes the inserting cycle
InsertJob(store, sj, t, cyc) ==
    Append(store, [url |-> sj.url, source |-> sj.source, isNew |-> TRUE,
                   firstSeen |-> t, lastSeen |-> t,
                   createdAt |-> t, updatedAt |-> t, cyc |-> cyc])

\* ----------------------------------------------------------- ScraperInvoker
\* What the external process can leave behind: exit code, stdout, stderr.
\* stdout either does not parse as JSON or is a document of the contract.
\* stdout.isNull: it is the JSON text null, whose properties cannot be read.
Garbage == [parses |-> FALSE, isNull |-> FALSE, success |-> FALSE, error |-> NullText,
            jobs |-> <<>>]
JsonNull == [parses |-> TRUE, isNull |-> TRUE, success |-> FALSE, error |-> NullText,
             jobs |-> <<>>]
Reported(text) == [parses |-> TRUE, isNull |-> FALSE, success |-> FALSE, error |-> text,
                   jobs |-> <<>>]
Document(b) == [parses |-> TRUE, isNull |-> FALSE, success |-> TRUE, error |-> NullText,
                jobs |-> b]

\* mutant: the output is parsed before the exit code is looked at
runPythonScraperParsesFirst(code, stdout, stderr) ==
    IF ~stdout.parses \/ stdout.isNull
    THEN [ok |-> FALSE, jobs |-> <<>>, error |-> "Failed to parse scraper JSON output"]
    ELSE IF ~stdout.success
    THEN [ok |-> FALSE, jobs |-> <<>>,
          error |-> IF stdout.error = NullText THEN "Scraper failed" ELSE stdout.error]
    ELSE IF code # 0
    THEN [ok |-> FALSE, jobs |-> <<>>,
          error |-> "Scraper failed with code " \o ToString(code) \o ": " \o stderr]
    ELSE [ok |-> TRUE, jobs |-> stdout.jobs, error |-> NullText]

\* pythonProcess.on('close', (code) => ...): JSON.parse and the read of
\* result.success are inside one try, whose catch rejects with the parse error
runPythonScraper(code, stdout, stderr) ==
    IF code # 0
    THEN [ok |-> FALSE, jobs |-> <<>>,
          error |-> "Scraper failed with code " \o ToString(code) \o ": " \o stderr]
    ELSE IF ~stdout.parses \/ stdout.isNull
    THEN [ok |-> FALSE, jobs |-> <<>>, error |-> "Failed to parse scraper JSON output"]
    ELSE IF ~stdout.success
    THEN [ok |-> FALSE, jobs |-> <<>>,
          error |-> IF stdout.error = NullText THEN "Scraper failed" ELSE stdout.error]
    ELSE [ok |-> TRUE, jobs |-> stdout.jobs, error |-> NullText]

\* The exits of the external process started with --source=source, with at
\* most n records in its document.
ProcessExitsUpTo(source, n) ==
    { [code |-> 1, stdout |-> Garbage, stderr |-> "boom"],
      [code |-> 0, stdout |-> Reported("blocked"), stderr |-> ""] }
    \cup { [code |-> 0, stdout |-> Document(b), stderr |-> ""] : b \in BatchesOf(source, n) }

ProcessExits(source) == ProcessExitsUpTo(source, MaxReported)

\* ------------------------------------------------------------------- state
VARIABLES
    now,              \* the clock, in ticks
    ticks,            \* times the clock has advanced
    runs,             \* table scraper_runs; a row's id is its index
    jobs,             \* table jobs, in insertion order
    procs,            \* the runScraperWorkflow calls in flight, one slot each
    activeSchedules,  \* Map<scheduleKey, Timeout>: key -> timer handle, 0 = no entry
    timers,           \* the timers of the event loop that are still pending
    nextHandle,       \* the next timer handle setTimeout returns
    started,          \* Run calls started so far
    faults,           \* storage operations that have failed so far
    crashes,          \* host crashes so far
    lastCycle,        \* per concrete source, the last ingestion cycle that returned
    calls,            \* upsertJobs calls made on their own so far
    entry,            \* table jobs as it was when the last such call was entered
    prev,             \* the last such call that returned, if nothing came after it
    cut,              \* the call a host crash has cut short, if any
    probe             \* a function called on its own: its argument and what it gave

vars == <<now, ticks, runs, jobs, procs, activeSchedules, timers, nextHandle,
          started, faults, crashes, lastCycle, calls, entry, prev, cut, probe>>

ingest == <<calls, entry, prev, cut, probe>>

Keys == Sources \X Keywords

NoResult == [kind |-> "none", success |-> FALSE, src |-> "", minutes |-> 0,
             error |-> NullText]

IdleProc ==
    [pc |-> "idle", source |-> "", keyword |-> "", manual |-> FALSE, auto |-> FALSE,
     at |-> 0, i |-> 0, runId |-> 0, batch |-> <<>>, newJobs |-> 0, skipped |-> 0,
     pre |-> {}, err |-> NullText, result |-> NoResult]

StorageError == "SQLITE_ERROR"

NoProbe == [fn |-> "none", arg |-> <<>>, ret |-> <<>>]

\* no call in flight, nothing scheduled, no Listing stored
Fresh ==
    /\ ticks = 0
    /\ jobs = <<>>
    /\ procs = [p \in Procs |-> IdleProc]
    /\ activeSchedules = [k \in Keys |-> 0]
    /\ timers = {}
    /\ nextHandle = 1
    /\ started = 0
    /\ faults = 0
    /\ crashes = 0
    /\ lastCycle = [s \in ConcreteSources |-> 0]
    /\ calls = 0
    /\ entry = <<>>
    /\ prev = <<>>
    /\ cut = <<>>

\* the host has started on an empty database
Init == now = 0 /\ runs = <<>> /\ Fresh /\ probe = NoProbe

\* ---------------------------------------------------------------- Scheduler
\* mutant: scheduleNextRun without clearTimeout(existingSchedule)
scheduleNextRunKeepsOld(active, pending, handle, source, keyword, hours, t) ==
    [active  |-> [active EXCEPT ![<<source, keyword>>] = handle],
     pending |-> pending \cup { [id |-> handle, source |-> source, keyword |-> keyword,
                                 due |-> t + Minutes(hours * 60)] },
     handle  |-> handle + 1]

\* scheduleNextRun(source, keyword, hours): the scheduler state after the call
scheduleNextRun(active, pending, handle, source, keyword, hours, t) ==
    LET key == <<source, keyword>>
        kept == { x \in pending : x.id # active[key] }   \* clearTimeout(existing)
    IN  [active  |-> [active EXCEPT ![key] = handle],
         pending |-> kept \cup { [id |-> handle, source |-> source, keyword |-> keyword,
                                  due |-> t + Minutes(hours * 60)] },
         handle  |-> handle + 1]

\* mutant: clearAllSchedules without the clearTimeout of each entry
clearAllSchedulesMapOnly(active, pending) ==
    [active |-> [k \in Keys |-> 0], pending |-> pending]

\* clearAllSchedules()
clearAllSchedules(active, pending) ==
    [active  |-> [k \in Keys |-> 0],
     pending |-> { x \in pending : \A k \in Keys : active[k] # x.id }]

\* ------------------------------------------------------ WorkflowCoordinator
Set(p, rec) == procs' = [procs EXCEPT ![p] = rec]

CanFault == faults < MaxFaults

\* The first free slot takes the next call.
FreeSlot(p) == procs[p].pc = "idle" /\ \A q \in Procs : q < p => procs[q].pc # "idle"

Entered(source, keyword, manual, auto, t) ==
    [IdleProc EXCEPT !.pc = "gate", !.source = source, !.keyword = keyword,
                     !.manual = manual, !.auto = auto, !.at = t, !.i = 1]

\* runScraperWorkflow(source, keyword, isManualTrigger) is called, as one of
\* at most n calls
Trigger(n, p, source, keyword, manual) ==
    /\ FreeSlot(p)
    /\ started < n
    /\ started' = started + 1
    /\ Set(p, Entered(source, keyword, manual, FALSE, now))
    /\ UNCHANGED <<now, ticks, runs, jobs, activeSchedules, timers, nextHandle, faults,
                   crashes, lastCycle, ingest>>

StartRun(p, source, keyword, manual) == Trigger(MaxRuns, p, source, keyword, manual)

\* mutant: the refusal names the source of the Run, not the source that blocks
GateResultNamesRun(me, ledger, t) ==
    LET srcs == ExpandSources(me.source)
        gate == canRunScraper(ledger, srcs[me.i], t)
    IN  IF ~gate.canRun
        THEN [me EXCEPT !.pc = "done",
                        !.result = [kind |-> "blocked", success |-> FALSE,
                                    src |-> me.source,
                                    minutes |-> gate.minutesUntilNext,
                                    error |-> NullText]]
        ELSE IF me.i < Len(srcs) THEN [me EXCEPT !.i = me.i + 1]
        ELSE [me EXCEPT !.pc = "insert"]

\* const { canRun, minutesUntilNext } = await canRunScraper(src)
GateResult(me, ledger, t) ==
    LET srcs == ExpandSources(me.source)
        src  == srcs[me.i]
        gate == canRunScraper(ledger, src, t)
    IN  IF ~gate.canRun
        THEN [me EXCEPT !.pc = "done",
                        !.result = [kind |-> "blocked", success |-> FALSE, src |-> src,
                                    minutes |-> gate.minutesUntilNext,
                                    error |-> NullText]]
        ELSE IF me.i < Len(srcs) THEN [me EXCEPT !.i = me.i + 1]
        ELSE [me EXCEPT !.pc = "insert"]

Thrown(me) ==
    [me EXCEPT !.pc = "threw",
               !.result = [kind |-> "threw", success |-> FALSE, src |-> "",
                           minutes |-> 0, error |-> StorageError]]

GateCheck(p) ==
    /\ procs[p].pc = "gate"
    /\ \/ /\ Set(p, GateResult(procs[p], runs, now))
          /\ UNCHANGED faults
       \/ /\ CanFault
          /\ faults' = faults + 1
          /\ Set(p, Thrown(procs[p]))
    /\ UNCHANGED <<now, ticks, runs, jobs, activeSchedules, timers, nextHandle, started,
                   crashes, lastCycle, ingest>>

\* db.insert(scraperRuns).values({source, status: 'running', startedAt}).returning()
OpenRecord(source, t) ==
    [source |-> source, status |-> "running", jobsFound |-> 0, newJobs |-> 0,
     startedAt |-> t, completedAt |-> NullTime, error |-> NullText]

\* the insert, then runPythonScraper(keyword, source) spawns the process
InsertRun(p) ==
    /\ procs[p].pc = "insert"
    /\ \/ /\ runs' = Append(runs, OpenRecord(procs[p].source, now))
          /\ Set(p, [procs[p] EXCEPT !.pc = "invoke", !.runId = Len(runs) + 1])
          /\ UNCHANGED faults
       \/ /\ CanFault
          /\ faults' = faults + 1
          /\ Set(p, Thrown(procs[p]))
          /\ UNCHANGED runs
    /\ UNCHANGED <<now, ticks, jobs, activeSchedules, timers, nextHandle, started,
                   crashes, lastCycle, ingest>>

\* upsertJobs(result, source) is entered: pre notes the URLs of the source's
\* Listings stored at the call
EnterUpsert(me, batch, store) ==
    [me EXCEPT !.pc = "clear", !.batch = batch, !.newJobs = 0, !.skipped = 0,
               !.pre = { store[k].url : k \in { n \in DOMAIN store :
                                                  store[n].source = me.source } }]

Failing(me, text) == [me EXCEPT !.pc = "fail", !.err = text]

\* the process closes; the promise of runPythonScraper settles
InvokeClose(p, exit) ==
    /\ procs[p].pc = "invoke"
    /\ exit \in ProcessExitsUpTo(procs[p].source, MaxBatch)
    /\ LET out == runPythonScraper(exit.code, exit.stdout, exit.stderr)
       IN  IF out.ok
           THEN Set(p, EnterUpsert(procs[p], out.jobs, jobs))
           ELSE Set(p, Failing(procs[p], out.error))
    /\ UNCHANGED <<now, ticks, runs, jobs, activeSchedules, timers, nextHandle, started,
                   faults, crashes, lastCycle, ingest>>

\* pythonProcess.on('error', ...): the process could not be started
InvokeError(p) ==
    /\ procs[p].pc = "invoke"
    /\ Set(p, Failing(procs[p], "spawn ENOENT"))
    /\ UNCHANGED <<now, ticks, runs, jobs, activeSchedules, timers, nextHandle, started,
                   faults, crashes, lastCycle, ingest>>

\* ------------------------------------------------- upsertJobs, step by step
\* the for loop moves to the next record, or upsertJobs returns {totalJobs, newJobs}
Advance(me) ==
    IF me.i < Len(me.batch) THEN [me EXCEPT !.pc = "lookup", !.i = me.i + 1]
    ELSE [me EXCEPT !.pc = "close"]

\* mutant: newJobsCount++ comes before the insert, a skipped record counts
SkipCountsNew(me) ==
    IF me.i < Len(me.batch)
    THEN [me EXCEPT !.pc = "lookup", !.i = me.i + 1, !.skipped = me.skipped + 1,
                    !.newJobs = me.newJobs + 1]
    ELSE [me EXCEPT !.pc = "close", !.skipped = me.skipped + 1,
                    !.newJobs = me.newJobs + 1]

\* mutant: the loop without its try/catch, a storage error ends the call
SkipAborts(me) == [me EXCEPT !.pc = "fail", !.err = StorageError]

\* catch (error) { console.error(...); continue; }
Skip(me) == Advance([me EXCEPT !.skipped = me.skipped + 1])

\* the cycle of `me` has returned: it is the last cycle of the sources it names
CycleReturned(me, lc) ==
    IF me.pc = "close"
    THEN [s \in ConcreteSources |->
            IF s \in Range(ExpandSources(me.source)) THEN me.runId ELSE lc[s]]
    ELSE lc

\* await db.update(jobs).set({isNewInLastHour: false}).where(eq(jobs.source, source))
UpsertClear(p) ==
    /\ procs[p].pc = "clear"
    /\ \/ /\ jobs' = ClearFresh(jobs, procs[p].source)
          /\ LET me == Advance([procs[p] EXCEPT !.i = 0])
             IN  Set(p, me) /\ lastCycle' = CycleReturned(me, lastCycle)
          /\ UNCHANGED faults
       \/ /\ CanFault
          /\ faults' = faults + 1
          /\ Set(p, Failing(procs[p], StorageError))
          /\ UNCHANGED <<jobs, lastCycle>>
    /\ UNCHANGED <<now, ticks, runs, activeSchedules, timers, nextHandle, started, crashes, ingest>>

\* const existing = await db.select().from(jobs).where(eq(jobs.url, url)).limit(1)
UpsertLookup(p) ==
    /\ procs[p].pc = "lookup"
    /\ \/ /\ Set(p, [procs[p] EXCEPT !.pc =
                        IF Existing(jobs, procs[p].batch[procs[p].i].url)
                        THEN "update" ELSE "ins"])
          /\ UNCHANGED <<faults, lastCycle>>
       \/ /\ CanFault
          /\ faults' = faults + 1
          /\ LET me == Skip(procs[p])
             IN  Set(p, me) /\ lastCycle' = CycleReturned(me, lastCycle)
    /\ UNCHANGED <<now, ticks, runs, jobs, activeSchedules, timers, nextHandle, started,
                   crashes, ingest>>

\* existing.length > 0: await db.update(jobs).set({lastSeen, ...}).where(url = ?)
UpsertUpdate(p) ==
    /\ procs[p].pc = "update"
    /\ \/ /\ jobs' = UpdateSeen(jobs, procs[p].batch[procs[p].i].url, now)
          /\ LET me == Advance(procs[p])
             IN  Set(p, me) /\ lastCycle' = CycleReturned(me, lastCycle)
          /\ UNCHANGED faults
       \/ /\ CanFault
          /\ faults' = faults + 1
          /\ LET me == Skip(procs[p])
             IN  Set(p, me) /\ lastCycle' = CycleReturned(me, lastCycle)
          /\ UNCHANGED jobs
    /\ UNCHANGED <<now, ticks, runs, activeSchedules, timers, nextHandle, started, crashes, ingest>>

\* else: await db.insert(jobs).values({...}); newJobsCount++
UpsertInsert(p) ==
    /\ procs[p].pc = "ins"
    /\ \/ /\ ~UniqueViolation(jobs, procs[p].batch[procs[p].i].url)
          /\ jobs' = InsertJob(jobs, procs[p].batch[procs[p].i], now, procs[p].runId)
          /\ LET me == Advance([procs[p] EXCEPT !.newJobs = procs[p].newJobs + 1])
             IN  Set(p, me) /\ lastCycle' = CycleReturned(me, lastCycle)
          /\ UNCHANGED faults
       \/ /\ UniqueViolation(jobs, procs[p].batch[procs[p].i].url)
          /\ LET me == Skip(procs[p])
             IN  Set(p, me) /\ lastCycle' = CycleReturned(me, lastCycle)
          /\ UNCHANGED <<jobs, faults>>
       \/ /\ CanFault
          /\ faults' = faults + 1
          /\ LET me == Skip(procs[p])
             IN  Set(p, me) /\ lastCycle' = CycleReturned(me, lastCycle)
          /\ UNCHANGED jobs
    /\ UNCHANGED <<now, ticks, runs, activeSchedules, timers, nextHandle, started, crashes, ingest>>

\* ------------------------------------------------------- closing the record
\* mutant: the closing update stores the two counts in each other's column
CloseRecordSwapped(ledger, id, t, found, new) ==
    [ k \in DOMAIN ledger |->
        IF k = id
        THEN [ledger[k] EXCEPT !.status = "completed", !.completedAt = t,
                               !.jobsFound = new, !.newJobs = found]
        ELSE ledger[k] ]

\* update scraper_runs set status = 'completed', ... where id = runRecord.id
CloseRecord(ledger, id, t, found, new) ==
    [ k \in DOMAIN ledger |->
        IF k = id
        THEN [ledger[k] EXCEPT !.status = "completed", !.completedAt = t,
                               !.jobsFound = found, !.newJobs = new]
        ELSE ledger[k] ]

\* mutant: the failing update selects by source, not by id
FailRecordBySource(ledger, id, t, text) ==
    [ k \in DOMAIN ledger |->
        IF ledger[k].source = ledger[id].source
        THEN [ledger[k] EXCEPT !.status = "failed", !.completedAt = t, !.error = text]
        ELSE ledger[k] ]

\* mutant: the failing update writes the text of a non-Error throw
FailRecordUnknown(ledger, id, t, text) ==
    [ k \in DOMAIN ledger |->
        IF k = id
        THEN [ledger[k] EXCEPT !.status = "failed", !.completedAt = t,
                               !.error = "Unknown error"]
        ELSE ledger[k] ]

\* update scraper_runs set status = 'failed', completedAt, error where id = ...
FailRecord(ledger, id, t, text) ==
    [ k \in DOMAIN ledger |->
        IF k = id
        THEN [ledger[k] EXCEPT !.status = "failed", !.completedAt = t, !.error = text]
        ELSE ledger[k] ]

\* if (isManualTrigger) scheduleNextRun(source, keyword)
ArmedByRun(me, t) ==
    IF me.manual
    THEN scheduleNextRun(activeSchedules, timers, nextHandle,
                         me.source, me.keyword, MIN_INTERVAL_HOURS, t)
    ELSE [active |-> activeSchedules, pending |-> timers, handle |-> nextHandle]

Succeeded(me) ==
    [me EXCEPT !.pc = "done",
               !.result = [kind |-> "completed", success |-> TRUE, src |-> "",
                           minutes |-> 0, error |-> NullText]]

Failed(me) ==
    [me EXCEPT !.pc = "done",
               !.result = [kind |-> "failed", success |-> FALSE, src |-> "",
                           minutes |-> 0, error |-> me.err]]

\* the try block after upsertJobs: close as completed, arm, return success
CloseCompleted(p) ==
    /\ procs[p].pc = "close"
    /\ \/ /\ runs' = CloseRecord(runs, procs[p].runId, now,
                                 Len(procs[p].batch), procs[p].newJobs)
          /\ LET s == ArmedByRun(procs[p], now)
             IN  /\ activeSchedules' = s.active
                 /\ timers' = s.pending
                 /\ nextHandle' = s.handle
          /\ Set(p, Succeeded(procs[p]))
          /\ UNCHANGED faults
       \/ /\ CanFault
          /\ faults' = faults + 1
          /\ Set(p, Failing(procs[p], StorageError))
          /\ UNCHANGED <<runs, activeSchedules, timers, nextHandle>>
    /\ UNCHANGED <<now, ticks, jobs, started, crashes, lastCycle, ingest>>

\* the catch block: close as failed, return failure
CloseFailed(p) ==
    /\ procs[p].pc = "fail"
    /\ \/ /\ runs' = FailRecord(runs, procs[p].runId, now, procs[p].err)
          /\ Set(p, Failed(procs[p]))
          /\ UNCHANGED faults
       \/ /\ CanFault
          /\ faults' = faults + 1
          /\ Set(p, Thrown(procs[p]))
          /\ UNCHANGED runs
    /\ UNCHANGED <<now, ticks, jobs, activeSchedules, timers, nextHandle, started, crashes,
                   lastCycle, ingest>>

\* The caller gets the result.  A manual caller is done; the timer's closure
\* arms the next run after a result and logs a rejection.
Return(p) ==
    /\ procs[p].pc \in {"done", "threw"}
    /\ Set(p, IdleProc)
    /\ IF procs[p].auto /\ procs[p].pc = "done"
       THEN LET s == scheduleNextRun(activeSchedules, timers, nextHandle,
                                     procs[p].source, procs[p].keyword,
                                     MIN_INTERVAL_HOURS, now)
            IN  /\ activeSchedules' = s.active
                /\ timers' = s.pending
                /\ nextHandle' = s.handle
       ELSE UNCHANGED <<activeSchedules, timers, nextHandle>>
    /\ UNCHANGED <<now, ticks, runs, jobs, started, faults, crashes, lastCycle, ingest>>

\* ------------------------------------------------------- timers, clock, host
\* the timeout of scheduleNextRun fires: runScraperWorkflow(source, keyword, false)
Fire(n, p, x) ==
    /\ x \in timers
    /\ x.due <= now
    /\ FreeSlot(p)
    /\ started < n
    /\ started' = started + 1
    /\ timers' = timers \ {x}
    /\ Set(p, Entered(x.source, x.keyword, FALSE, TRUE, now))
    /\ UNCHANGED <<now, ticks, runs, jobs, activeSchedules, nextHandle, faults, crashes,
                   lastCycle, ingest>>

TimerFire(p, x) == Fire(MaxRuns, p, x)

ClearAll ==
    /\ LET s == clearAllSchedules(activeSchedules, timers)
       IN  activeSchedules' = s.active /\ timers' = s.pending
    /\ \E k \in Keys : activeSchedules[k] # 0
    /\ UNCHANGED <<now, ticks, runs, jobs, procs, nextHandle, started, faults, crashes,
                   lastCycle, ingest>>

TickSteps == { Minutes(10), Minutes(MIN_INTERVAL_HOURS * 60) }

\* Time passes while the host waits: the storage calls are synchronous
\* (better-sqlite3) and take no time to speak of; a pending timer fires when
\* it is due.
Tick(d) ==
    /\ ticks < MaxTicks
    /\ \A p \in Procs : procs[p].pc \in {"idle", "invoke"}
    /\ \A x \in timers : now + d <= x.due
    /\ now' = now + d
    /\ ticks' = ticks + 1
    /\ UNCHANGED <<runs, jobs, procs, activeSchedules, timers, nextHandle, started,
                   faults, crashes, lastCycle, ingest>>

\* the steps of the calls that run in the slots P
NextOf(P) ==
    \/ \E p \in P, s \in Sources, k \in Keywords, m \in BOOLEAN : StartRun(p, s, k, m)
    \/ \E p \in P : GateCheck(p)
    \/ \E p \in P : InsertRun(p)
    \/ \E p \in P : \E e \in ProcessExits(procs[p].source) : InvokeClose(p, e)
    \/ \E p \in P : InvokeError(p)
    \/ \E p \in P : UpsertClear(p)
    \/ \E p \in P : UpsertLookup(p)
    \/ \E p \in P : UpsertUpdate(p)
    \/ \E p \in P : UpsertInsert(p)
    \/ \E p \in P : CloseCompleted(p)
    \/ \E p \in P : CloseFailed(p)
    \/ \E p \in P : Return(p)
    \/ \E p \in P : \E x \in timers : TimerFire(p, x)
    \/ ClearAll
    \/ \E d \in TickSteps : Tick(d)

Next == NextOf(Procs)

\* The coordinator: manual triggers and timer fires, two calls at a time.
Spec == Init /\ [][Next]_vars

NextSeq == NextOf({1})

\* The coordinator with one call at a time: a trigger comes only after the
\* Run before it has returned.
SpecSeq == Init /\ [][NextSeq]_vars

\* ------------------------------------------- upsertJobs called on its own
\* upsertJobs(result, source) in the fault-free, uninterrupted case, as one function
RECURSIVE UpsertEach(_, _, _, _, _)
UpsertEach(store, batch, k, t, cyc) ==
    IF k > Len(batch) THEN store
    ELSE UpsertEach(IF Existing(store, batch[k].url)
                    THEN UpdateSeen(store, batch[k].url, t)
                    ELSE InsertJob(store, batch[k], t, cyc),
                    batch, k + 1, t, cyc)

upsertJobs(store, batch, source, t, cyc) ==
    UpsertEach(ClearFresh(store, source), batch, 1, t, cyc)

\* upsertJobs(result, source) is called by a caller of its own, in slot 1
CallUpsert(source, batch) ==
    /\ procs[1].pc = "idle"
    /\ calls < MaxCalls
    /\ calls' = calls + 1
    /\ entry' = jobs
    /\ cut' = <<>>
    /\ Set(1, EnterUpsert([IdleProc EXCEPT !.source = source, !.runId = calls + 1],
                          batch, jobs))
    /\ UNCHANGED <<now, ticks, runs, jobs, activeSchedules, timers, nextHandle,
                   started, faults, crashes, lastCycle, prev, probe>>

\* return { totalJobs, newJobs: newJobsCount } to that caller
UpsertReturn ==
    /\ procs[1].pc = "close"
    /\ prev' = <<[source |-> procs[1].source, batch |-> procs[1].batch,
                  totalJobs |-> Len(procs[1].batch), newJobs |-> procs[1].newJobs,
                  skipped |-> procs[1].skipped]>>
    /\ Set(1, IdleProc)
    /\ UNCHANGED <<now, ticks, runs, jobs, activeSchedules, timers, nextHandle,
                   started, faults, crashes, lastCycle, calls, entry, cut, probe>>

\* The host process dies: the calls in flight and the timers are gone, the
\* tables stay.
Crash ==
    /\ crashes < MaxCrashes
    /\ \E p \in Procs : procs[p].pc # "idle"
    /\ crashes' = crashes + 1
    /\ cut' = IF procs[1].pc \in {"clear", "lookup", "update", "ins"}
              THEN <<[source |-> procs[1].source, batch |-> procs[1].batch,
                      at |-> now, cyc |-> procs[1].runId]>>
              ELSE <<>>
    /\ prev' = <<>>
    /\ procs' = [p \in Procs |-> IdleProc]
    /\ activeSchedules' = [k \in Keys |-> 0]
    /\ timers' = {}
    /\ UNCHANGED <<now, ticks, runs, jobs, nextHandle, started, faults, lastCycle,
                   calls, entry, probe>>

NextIngest ==
    \/ \E s \in Sources : \E b \in BatchesOf(s, MaxBatch) : CallUpsert(s, b)
    \/ UpsertClear(1)
    \/ UpsertLookup(1)
    \/ UpsertUpdate(1)
    \/ UpsertInsert(1)
    \/ UpsertReturn
    \/ \E d \in TickSteps : Tick(d)
    \/ Crash

\* The ingestion engine alone: one upsertJobs call after the other, storage
\* faults and a host crash included.
SpecIngest == Init /\ [][NextIngest]_vars

\* ------------------------------------------------- the scheduler on its own
\* The exits of the process in the scheduler's cycles: it fails, or it
\* reports no records.
SchedExits ==
    { [code |-> 1, stdout |-> Garbage, stderr |-> "boom"],
      [code |-> 0, stdout |-> Document(<<>>), stderr |-> ""] }

\* the steps the host takes by itself once a call is in flight: every await
\* but the one on the external process
HostSteps ==
    \/ GateCheck(1)
    \/ InsertRun(1)
    \/ UpsertClear(1)
    \/ CloseCompleted(1)
    \/ CloseFailed(1)
    \/ Return(1)

NextSched ==
    \/ \E s \in Sources, k \in Keywords, m \in BOOLEAN : Trigger(MaxSchedRuns, 1, s, k, m)
    \/ HostSteps
    \/ \E e \in SchedExits : InvokeClose(1, e)
    \/ \E x \in timers : Fire(MaxSchedRuns, 1, x)
    \/ ClearAll
    \/ \E d \in TickSteps : Tick(d)

\* Triggers, timers and their cycles, one call at a time, with cycles that
\* report no records.
SpecSched == Init /\ [][NextSched]_vars

\* The same, with the host running: a call in flight takes its next step
\* unless it waits for the external process, which may never exit.
SpecSchedFair == SpecSched /\ WF_vars(HostSteps)

\* ----------------------------------------------- runPythonScraper on its own
ExitCodes == {0, 1, 2}
Stderrs == {"", "boom"}
Stdouts ==
    { Garbage, JsonNull, Reported("blocked"), Reported(NullText) }
    \cup { Document(b) : b \in BatchesOf("all", MaxBatch) }

\* the process has exited, with any exit code and any output
InitInvoke ==
    /\ now = 0
    /\ runs = <<>>
    /\ Fresh
    /\ probe \in { [fn |-> "runPythonScraper",
                    arg |-> [code |-> c, stdout |-> o, stderr |-> e],
                    ret |-> <<>>] : c \in ExitCodes, o \in Stdouts, e \in Stderrs }

\* the close handler settles the promise
SettleInvoke ==
    /\ probe.fn = "runPythonScraper"
    /\ probe.ret = <<>>
    /\ probe' = [probe EXCEPT !.ret =
                    <<runPythonScraper(probe.arg.code, probe.arg.stdout, probe.arg.stderr)>>]
    /\ UNCHANGED <<now, ticks, runs, jobs, procs, activeSchedules, timers, nextHandle,
                   started, faults, crashes, lastCycle, calls, entry, prev, cut>>

SpecInvoke == InitInvoke /\ [][SettleInvoke]_vars

\* -------------------------------------------------- canRunScraper on its own
\* The clock readings of a ledger: completion times, and the time of asking.
LedgerTimes == { 0, Minutes(30), Minutes(90), Minutes(90) + 1, Minutes(119) + 1, Minutes(120) }
AskTimes == { Minutes(120), Minutes(120) + 1, Minutes(240) }

\* The RunRecords runScraperWorkflow leaves: running without completedAt,
\* completed or failed with it.
LedgerRecords ==
    { OpenRecord(s, t) : s \in Sources, t \in {0} }
    \cup { CloseRecord(<<OpenRecord(s, 0)>>, 1, t, 0, 0)[1] : s \in Sources, t \in LedgerTimes }
    \cup { FailRecord(<<OpenRecord(s, 0)>>, 1, t, "boom")[1] : s \in Sources, t \in LedgerTimes }

\* the host finds any ledger of earlier Runs, at any later time
InitGate ==
    /\ Fresh
    /\ runs \in SeqsUpTo(LedgerRecords, MaxLedger)
    /\ now \in AskTimes
    /\ probe \in { [fn |-> "canRunScraper", arg |-> s, ret |-> <<>>] : s \in ConcreteSources }
                \cup { [fn |-> f, arg |-> "", ret |-> <<>>] :
                         f \in {"getScraperStatus", "server/getScraperStatus"} }

\* canRunScraper(source) returns
AskGate ==
    /\ probe.fn = "canRunScraper"
    /\ probe.ret = <<>>
    /\ probe' = [probe EXCEPT !.ret = <<canRunScraper(runs, probe.arg, now)>>]
    /\ UNCHANGED <<now, ticks, runs, jobs, procs, activeSchedules, timers, nextHandle,
                   started, faults, crashes, lastCycle, calls, entry, prev, cut>>

\* getScraperStatus() returns
AskStatus ==
    /\ probe.fn = "getScraperStatus"
    /\ probe.ret = <<>>
    /\ probe' = [probe EXCEPT !.ret = <<getScraperStatus(runs, now)>>]
    /\ UNCHANGED <<now, ticks, runs, jobs, procs, activeSchedules, timers, nextHandle,
                   started, faults, crashes, lastCycle, calls, entry, prev, cut>>

\* getScraperStatus() of server/index.ts returns
AskStatusServer ==
    /\ probe.fn = "server/getScraperStatus"
    /\ probe.ret = <<>>
    /\ probe' = [probe EXCEPT !.ret = <<getScraperStatusServer(runs, now)>>]
    /\ UNCHANGED <<now, ticks, runs, jobs, procs, activeSchedules, timers, nextHandle,
                   started, faults, crashes, lastCycle, calls, entry, prev, cut>>

NextGate == AskGate \/ AskStatus \/ AskStatusServer

SpecGate == InitGate /\ [][NextGate]_vars

\* ------------------------------------------------- one cycle, start to end
\* The exits of the process in a cycle followed to its end: it fails, or it
\* reports up to MaxBatch records.
CycleExits(source) ==
    { [code |-> 1, stdout |-> Garbage, stderr |-> "boom"] }
    \cup { [code |-> 0, stdout |-> Document(b), stderr |-> ""] : b \in BatchesOf(source, MaxBatch) }

NextCycle ==
    \/ \E s \in Sources, k \in Keywords, m \in BOOLEAN : Trigger(MaxCycleRuns, 1, s, k, m)
    \/ HostSteps
    \/ \E e \in CycleExits(procs[1].source) : InvokeClose(1, e)
    \/ UpsertLookup(1)
    \/ UpsertUpdate(1)
    \/ UpsertInsert(1)
    \/ \E d \in TickSteps : Tick(d)

\* runScraperWorkflow called one call after the other, the process reporting
\* batches of several records.
SpecCycle == Init /\ [][NextCycle]_vars

\* ----------------------------------------------------- the trigger route
\* router.post('/scrape'): the route asks canRunScraper for each source the
\* request names and answers 429 at the first refusal; otherwise it calls
\* runScraperWorkflow(source, searchKeyword), without a third argument, and
\* answers that the scraper started
PostScrape(n, p, source, keyword) ==
    LET srcs    == ExpandSources(source)
        refused == { i \in DOMAIN srcs : ~canRunScraper(runs, srcs[i], now).canRun }
    IN  IF refused = {}
        THEN Trigger(n, p, source, keyword, FALSE)
        ELSE LET first == CHOOSE i \in refused : \A k \in refused : i <= k
             IN  /\ FreeSlot(p)
                 /\ probe' = [fn |-> "postScrape", arg |-> <<source>>,
                              ret |-> <<429, srcs[first],
                                        canRunScraper(runs, srcs[first], now).minutesUntilNext>>]
                 /\ UNCHANGED <<now, ticks, runs, jobs, procs, activeSchedules, timers,
                                nextHandle, started, faults, crashes, lastCycle,
                                calls, entry, prev, cut>>

NextRoute ==
    \/ \E s \in Sources, k \in Keywords : PostScrape(MaxRuns, 1, s, k)
    \/ HostSteps
    \/ \E e \in SchedExits : InvokeClose(1, e)
    \/ \E d \in TickSteps : Tick(d)

\* The host as its HTTP interface drives it: every Run comes of a request to
\* the trigger route.
SpecRoute == Init /\ [][NextRoute]_vars

\* ================================================================== claims
Completed(k) == runs[k].status = "completed"

\* a Run that has opened its RunRecord and not yet closed it
InFlight(p) == procs[p].runId # 0 /\ runs[procs[p].runId].status = "running"

Rows(url) == { n \in DOMAIN jobs : jobs[n].url = url }

\* C1: a Run triggered 10 minutes after a Run of the same source value
\* completed (cooldown 120 minutes) gets no further than the gate: it opens no
\* RunRecord and returns success=false with a wait of 110 minutes.
C1_SecondRunBlocked ==
    \A p \in Procs : \A k \in DOMAIN runs :
        ( /\ procs[p].pc \notin {"idle", "threw"}
          /\ Completed(k)
          /\ runs[k].source = procs[p].source
          /\ procs[p].at = runs[k].completedAt + Minutes(10)
          /\ MIN_INTERVAL_HOURS * 60 = 120 )
        => /\ procs[p].pc \in {"gate", "done"}
           /\ procs[p].runId = 0
           /\ procs[p].pc = "done" =>
                /\ procs[p].result.kind = "blocked"
                /\ ~procs[p].result.success
                /\ procs[p].result.minutes = 110

\* C2: a step of a Run at the gate changes neither table nor the schedule and
\* starts no process; when the gate blocks, the Run returns success=false
\* naming the blocking source and the wait canRunScraper computed for it.
C2_GateStep(p) ==
    (procs[p].pc = "gate" /\ procs'[p] # procs[p]) =>
        /\ runs' = runs
        /\ jobs' = jobs
        /\ activeSchedules' = activeSchedules
        /\ timers' = timers
        /\ nextHandle' = nextHandle
        /\ procs'[p].runId = 0
        /\ procs'[p].pc \in {"gate", "insert", "done", "threw"}
        /\ procs'[p].pc = "done" =>
             LET src == ExpandSources(procs[p].source)[procs[p].i]
             IN  /\ procs'[p].result.kind = "blocked"
                 /\ ~procs'[p].result.success
                 /\ procs'[p].result.src = src
                 /\ ~canRunScraper(runs, src, now).canRun
                 /\ procs'[p].result.minutes = canRunScraper(runs, src, now).minutesUntilNext
                 /\ procs'[p].result.minutes >= 1

C2_BlockedRunHasNoEffect == [][\A p \in Procs : C2_GateStep(p)]_vars

\* a Run of "all" is refused for its second source, stepstone
C2_Witness ==
    \E p \in Procs :
        /\ procs[p].pc = "done"
        /\ procs[p].result.kind = "blocked"
        /\ procs[p].source = "all"
        /\ procs[p].result.src = "stepstone"
        /\ procs[p].result.minutes = 110

\* C3: no two Runs of the same source are in flight at the same time.
C3_OneRunPerSource ==
    \A p, q \in Procs :
        (p # q /\ InFlight(p) /\ InFlight(q)) => procs[p].source # procs[q].source

\* C4: a RunRecord is running, completed or failed, has completedAt exactly
\* when it is not running, changes only from running to completed or failed,
\* and is never removed.
C4_RecordShape ==
    \A k \in DOMAIN runs :
        /\ runs[k].status \in {"running", "completed", "failed"}
        /\ (runs[k].completedAt # NullTime) <=> (runs[k].status # "running")

C4_RecordStep ==
    /\ Len(runs') >= Len(runs)
    /\ \A k \in DOMAIN runs :
         runs'[k] # runs[k] =>
            /\ runs[k].status = "running"
            /\ runs'[k].status \in {"completed", "failed"}

C4_RecordLifecycle == []C4_RecordShape /\ [][C4_RecordStep]_vars

\* a closed record next to one closed the other way
C4_Witness ==
    \E k, n \in DOMAIN runs :
        runs[k].status = "completed" /\ runs[n].status = "failed"

\* C5: with no Run in flight, a Listing is fresh exactly when the last
\* ingestion cycle of its source inserted it.
C5_FreshIsLastCycle ==
    (\A p \in Procs : procs[p].pc = "idle") =>
        \A n \in DOMAIN jobs :
            jobs[n].isNew <=> (jobs[n].cyc = lastCycle[jobs[n].source])

\* C6: when upsertJobs(result, source) has returned, no Listing of that source
\* stored before the call is fresh, and a call with no records reports
\* newJobs = 0.
C6_StaleAfterReconcile ==
    \A p \in Procs :
        procs[p].pc = "close" =>
            /\ \A n \in DOMAIN jobs : jobs[n].url \in procs[p].pre => ~jobs[n].isNew
            /\ procs[p].batch = <<>> => procs[p].newJobs = 0

\* an empty cycle has returned for a source that had Listings
C6_Witness ==
    \E p \in Procs :
        /\ procs[p].pc = "close"
        /\ procs[p].batch = <<>>
        /\ procs[p].pre # {}

\* C7: no two Listings share a URL; the update of a stored URL sets lastSeen
\* and updatedAt to now, not earlier than before, and leaves one row of it.
C7_UniqueUrl ==
    \A n, m \in DOMAIN jobs : jobs[n].url = jobs[m].url => n = m

C7_UpdateStep(p) ==
    ( /\ procs[p].pc = "update"
      /\ procs'[p] # procs[p]
      /\ procs'[p].skipped = procs[p].skipped ) =>
        LET url == procs[p].batch[procs[p].i].url
        IN  /\ Len(jobs') = Len(jobs)
            /\ Cardinality(Rows(url)) = 1
            /\ \A n \in Rows(url) :
                 /\ jobs'[n].url = url
                 /\ jobs'[n].lastSeen = now
                 /\ jobs'[n].updatedAt = now
                 /\ jobs'[n].lastSeen >= jobs[n].lastSeen
            /\ \A n \in DOMAIN jobs \ Rows(url) : jobs'[n] = jobs[n]

C7_UpsertByUrl == []C7_UniqueUrl /\ [][\A p \in Procs : C7_UpdateStep(p)]_vars

\* a re-sighting has moved lastSeen past firstSeen
C7_Witness ==
    \E n \in DOMAIN jobs : jobs[n].lastSeen > jobs[n].firstSeen

\* C10: Run never rejects; a Run that returns failure after opening a
\* RunRecord leaves it failed with the error text.
C10_RunNeverThrows ==
    \A p \in Procs :
        /\ procs[p].pc # "threw"
        /\ (procs[p].pc = "done" /\ procs[p].runId # 0 /\ ~procs[p].result.success) =>
              /\ runs[procs[p].runId].status = "failed"
              /\ runs[procs[p].runId].error = procs[p].result.error

\* C8: of two upsertJobs calls in immediate succession with the same records
\* and source, neither skipping a record, the second reports newJobs = 0 and
\* leaves every Listing with a URL of the records stale.
C8_SecondCallFindsNothingNew ==
    ( /\ procs[1].pc = "close"
      /\ prev # <<>>
      /\ prev[1].batch = procs[1].batch
      /\ prev[1].source = procs[1].source
      /\ prev[1].skipped = 0
      /\ procs[1].skipped = 0 ) =>
        /\ procs[1].newJobs = 0
        /\ \A k \in DOMAIN procs[1].batch :
             /\ Rows(procs[1].batch[k].url) # {}
             /\ \A n \in Rows(procs[1].batch[k].url) : ~jobs[n].isNew

\* the second of two such calls has returned, and the first had inserted
C8_Witness ==
    /\ procs[1].pc = "close"
    /\ prev # <<>>
    /\ prev[1].batch = procs[1].batch
    /\ prev[1].source = procs[1].source
    /\ prev[1].skipped = 0
    /\ procs[1].skipped = 0
    /\ prev[1].newJobs = 2
    /\ procs[1].source = "all"

\* C9: after a host crash in the middle of upsertJobs the table is the one
\* before the call or the one the whole call would have left.
C9_CrashLeavesAllOrNothing ==
    cut # <<>> =>
        \/ jobs = entry
        \/ jobs = upsertJobs(entry, cut[1].batch, cut[1].source, cut[1].at, cut[1].cyc)

Blocked == [code |-> 0, stdout |-> Reported("blocked"), stderr |-> ""]

\* a Run whose process exited with code 0 and {"success":false,"error":"blocked"}
GotBlocked(p) == procs[p].err = "blocked"

\* C11: the exit with code 0 and {"success":false,"error":"blocked"} makes
\* runPythonScraper reject with the text "blocked"; the Run then never enters
\* upsertJobs and changes no Listing, and when it returns its result it has
\* closed its RunRecord as failed with error "blocked" and success is false.
C11_State ==
    /\ runPythonScraper(Blocked.code, Blocked.stdout, Blocked.stderr)
         = [ok |-> FALSE, jobs |-> <<>>, error |-> "blocked"]
    /\ \A s \in Sources : Blocked \in ProcessExits(s)
    /\ \A p \in Procs :
         GotBlocked(p) =>
            /\ procs[p].pc \in {"fail", "done", "threw"}
            /\ procs[p].batch = <<>>
            /\ procs[p].runId \in DOMAIN runs
            /\ procs[p].pc = "fail" => runs[procs[p].runId].status = "running"
            /\ procs[p].pc = "done" =>
                 /\ runs[procs[p].runId].status = "failed"
                 /\ runs[procs[p].runId].error = "blocked"
                 /\ runs[procs[p].runId].completedAt # NullTime
                 /\ procs[p].result.kind = "failed"
                 /\ ~procs[p].result.success
                 /\ procs[p].result.error = "blocked"

C11_Step(p) ==
    ( /\ procs'[p] # procs[p]
      /\ \/ GotBlocked(p)
         \/ procs[p].pc = "invoke" /\ procs'[p].err = "blocked" ) =>
        /\ jobs' = jobs
        /\ lastCycle' = lastCycle

C11_ReportedFailureClosesFailed == []C11_State /\ [][\A p \in Procs : C11_Step(p)]_vars

\* a Run has returned failure after the process reported "blocked"
C11_Witness ==
    \E p \in Procs :
        /\ GotBlocked(p)
        /\ procs[p].pc = "done"
        /\ runs[procs[p].runId].status = "failed"

Settled == probe.fn = "runPythonScraper" /\ probe.ret # <<>>

\* C12: what runPythonScraper gives is decided in this order.  A non-zero exit
\* code: an error that tells the exit code and the stderr text apart from any
\* other, whatever stdout holds.  Exit code 0 and a stdout that does not parse:
\* the parse error.  Exit code 0 and a parsed document whose success is falsy:
\* an error with the document's error string.  The record list is returned
\* only in the remaining case, exit code 0 and a parsed document with success.
C12_InvokePrecedence ==
    Settled =>
        LET a   == probe.arg
            out == probe.ret[1]
        IN  /\ a.code # 0 =>
                 /\ ~out.ok
                 /\ \A o \in Stdouts : runPythonScraper(a.code, o, a.stderr) = out
                 /\ \A c \in ExitCodes, e \in Stderrs :
                      runPythonScraper(c, a.stdout, e).error = out.error
                         => (c = a.code /\ e = a.stderr)
            /\ (a.code = 0 /\ ~a.stdout.parses) =>
                 /\ ~out.ok
                 /\ out.error = "Failed to parse scraper JSON output"
            /\ (a.code = 0 /\ a.stdout.parses /\ ~a.stdout.isNull /\ ~a.stdout.success) =>
                 /\ ~out.ok
                 /\ a.stdout.error # NullText => out.error = a.stdout.error
                 /\ out.error # "Failed to parse scraper JSON output"
            /\ (a.code = 0 /\ a.stdout.parses /\ a.stdout.success) =>
                 /\ out.ok
                 /\ out.jobs = a.stdout.jobs
            /\ out.ok => (a.code = 0 /\ a.stdout.parses /\ a.stdout.success)
            /\ ~out.ok => out.jobs = <<>>

\* a non-zero exit whose stdout is a well-formed document with records
C12_Witness ==
    /\ Settled
    /\ probe.arg.code = 2
    /\ probe.arg.stdout.success
    /\ Len(probe.arg.stdout.jobs) = 2
    /\ ~probe.ret[1].ok

Waiting(p) == procs[p].pc = "invoke" /\ runs[procs[p].runId].status = "running"

\* C13: with the host alive, a Run that has opened its RunRecord and waits for
\* the external process stops waiting in the end, by the exit of the process
\* or by the timeout, so that its record does not stay running for ever.
C13_InvocationCutOff ==
    \A p \in Procs : Waiting(p) ~> ~Waiting(p)

\* the live timers of a key: armed, not fired, not cancelled
Live(pending, key) == { x \in pending : <<x.source, x.keyword>> = key }

\* C14: a key has at most one live timer, the one the schedule map holds.  A
\* call of scheduleNextRun for a key leaves the new timer as the key's only
\* live timer, cancelling the one before; a fire takes the key's only live
\* timer, so that of two arms with no fire between them one Run fires.
C14_OneLive ==
    \A key \in Keys :
        /\ Cardinality(Live(timers, key)) <= 1
        /\ \A x \in Live(timers, key) : x.id = activeSchedules[key]

C14_ArmStep ==
    nextHandle' # nextHandle =>
        \E key \in Keys :
            /\ activeSchedules'[key] = nextHandle
            /\ Live(timers', key) = { x \in timers' : x.id = nextHandle }
            /\ Cardinality(Live(timers', key)) = 1
            /\ \A other \in Keys \ {key} : Live(timers', other) = Live(timers, other)

C14_FireStep ==
    \A p \in Procs :
        (procs[p].pc = "idle" /\ procs'[p].pc = "gate" /\ procs'[p].auto) =>
            LET key == <<procs'[p].source, procs'[p].keyword>>
            IN  /\ Cardinality(Live(timers, key)) = 1
                /\ Live(timers', key) = {}
                /\ ~procs'[p].manual

C14_OneTimerPerKey == []C14_OneLive /\ [][C14_ArmStep /\ C14_FireStep]_vars

\* a key armed twice before its first timer fired: the Run of the second
\* timer is under way, the first timer is gone
C14_Witness ==
    \E key \in Keys :
        /\ activeSchedules[key] = 2
        /\ nextHandle = 3
        /\ timers = {}
        /\ procs[1].auto
        /\ <<procs[1].source, procs[1].keyword>> = key
        /\ started = 3

\* C15: when the Run a timer fired has ended, whatever its outcome, the
\* firing closure has armed the key again: the key has a live timer.
C15_Ended(p) ==
    (procs[p].auto /\ procs[p].pc \in {"done", "threw"} /\ procs'[p].pc = "idle") =>
        /\ ~procs[p].manual
        /\ Live(timers', <<procs[p].source, procs[p].keyword>>) # {}

C15_FireRearms == [][\A p \in Procs : C15_Ended(p)]_vars

\* scheduleNextRun was called once in this step, for the key of Run p
ArmedOnce(p) ==
    /\ nextHandle' = nextHandle + 1
    /\ activeSchedules'[<<procs[p].source, procs[p].keyword>>] = nextHandle
    /\ \E x \in timers' : x.id = nextHandle

\* C16: a Run that passed the gate and returns its result has armed its key
\* exactly once if it is manual, whether its record closed completed or
\* failed, and has not touched the schedule if it is automatic; the closure
\* of an automatic Run then arms the key once.
C16_Returns(p) ==
    /\ (procs[p].pc \in {"close", "fail"} /\ procs'[p].pc = "done") =>
          IF procs[p].manual THEN ArmedOnce(p)
          ELSE UNCHANGED <<activeSchedules, timers, nextHandle>>
    /\ (procs[p].pc = "done" /\ procs'[p].pc = "idle") =>
          IF procs[p].auto THEN ArmedOnce(p)
          ELSE UNCHANGED <<activeSchedules, timers, nextHandle>>

C16_ManualRunArmsOnce == [][\A p \in Procs : C16_Returns(p)]_vars

Asked == probe.fn = "canRunScraper" /\ probe.ret # <<>>

\* the RunRecords of a source with the given status
Of(ledger, source, status) ==
    { k \in DOMAIN ledger : ledger[k].source = source /\ ledger[k].status = status }

\* C17: when no RunRecord of the source is completed, canRunScraper allows
\* the Run with minutesUntilNext = 0, whatever running or failed records of
\* the source the ledger holds.
C17_NoCompletedAllows ==
    (Asked /\ Of(runs, probe.arg, "completed") = {}) =>
        probe.ret[1] = [canRun |-> TRUE, minutesUntilNext |-> 0]

\* asked inside what would be the cooldown of a failed and of a running record
C17_Witness ==
    /\ Asked
    /\ Of(runs, probe.arg, "completed") = {}
    /\ \E k \in Of(runs, probe.arg, "failed") : now - runs[k].completedAt < Minutes(30)
    /\ Of(runs, probe.arg, "running") # {}

\* ticks since the most recent completed RunRecord of the source was closed
Elapsed(ledger, source, t) ==
    LET last == CHOOSE k \in Of(ledger, source, "completed") :
                    \A n \in Of(ledger, source, "completed") :
                        ledger[n].completedAt <= ledger[k].completedAt
    IN  t - ledger[last].completedAt

\* C18: with e the minutes since the most recent completed RunRecord of the
\* source and r = 60 * MIN_INTERVAL_HOURS, canRunScraper allows exactly when
\* e >= r; otherwise minutesUntilNext is the least whole number of minutes
\* not below r - e, which lies in 1..r, and it is 90 for e = 30, r = 120.
C18_CooldownArithmetic ==
    (Asked /\ Of(runs, probe.arg, "completed") # {}) =>
        LET e   == Elapsed(runs, probe.arg, now)
            r   == MIN_INTERVAL_HOURS * 60
            out == probe.ret[1]
        IN  /\ out.canRun <=> e >= Minutes(r)
            /\ out.canRun => out.minutesUntilNext = 0
            /\ ~out.canRun =>
                 /\ Minutes(out.minutesUntilNext) >= Minutes(r) - e
                 /\ Minutes(out.minutesUntilNext - 1) < Minutes(r) - e
                 /\ out.minutesUntilNext \in 1..r
            /\ (e = Minutes(30) /\ r = 120) =>
                 out = [canRun |-> FALSE, minutesUntilNext |-> 90]

\* asked 30 minutes after the later of two completed records of the source
C18_Witness ==
    /\ Asked
    /\ Cardinality(Of(runs, probe.arg, "completed")) = 2
    /\ Elapsed(runs, probe.arg, now) = Minutes(30)
    /\ \E k \in Of(runs, probe.arg, "completed") : now - runs[k].completedAt >= Minutes(120)
    /\ probe.ret[1].minutesUntilNext = 90

\* the records a failed Run and a crashed host leave: failed or still running
Unfinished == { x \in LedgerRecords : x.status \in {"failed", "running"} }

\* the ledger without its failed and running records
RECURSIVE CompletedOnly(_)
CompletedOnly(ledger) ==
    IF ledger = <<>> THEN <<>>
    ELSE IF Head(ledger).status = "completed"
         THEN <<Head(ledger)>> \o CompletedOnly(Tail(ledger))
         ELSE CompletedOnly(Tail(ledger))

\* C19: the answer of canRunScraper is the same with a failed or a running
\* record more in the ledger, and the same without the failed and running
\* records it holds: a Run that failed or was cut by a crash does not extend
\* the cooldown.
C19_OnlyCompletedCounts ==
    Asked =>
        /\ \A x \in Unfinished :
             /\ canRunScraper(Append(runs, x), probe.arg, now) = probe.ret[1]
             /\ canRunScraper(<<x>> \o runs, probe.arg, now) = probe.ret[1]
        /\ canRunScraper(CompletedOnly(runs), probe.arg, now) = probe.ret[1]

\* a Run failed, and a crash left a record running, after the last completed
\* Run whose cooldown is over: the gate allows
C19_Witness ==
    /\ Asked
    /\ Len(runs) = 2
    /\ runs[1].source = probe.arg /\ runs[1].status = "completed"
    /\ runs[2].source = probe.arg /\ runs[2].status = "failed"
    /\ runs[2].completedAt > runs[1].completedAt
    /\ now - runs[2].completedAt < Minutes(MIN_INTERVAL_HOURS * 60)
    /\ probe.ret[1].canRun

\* C20: two completed RunRecords of the same source were closed at least
\* MIN_INTERVAL_HOURS apart.
C20_CompletedApart ==
    \A k, n \in DOMAIN runs :
        (k < n /\ Completed(k) /\ Completed(n) /\ runs[k].source = runs[n].source) =>
            runs[n].completedAt - runs[k].completedAt >= Minutes(MIN_INTERVAL_HOURS * 60)

\* the record of this URL went through: its row exists and was seen now
Handled(url) == \E n \in DOMAIN jobs : jobs[n].url = url /\ jobs[n].lastSeen = now

\* C21: a storage failure while one record is processed is confined to that
\* record.  upsertJobs rejects only from its clearing update, before any
\* record; once in the loop it goes on to the end and returns, and every
\* record it did not skip went through.
C21_StorageFailureConfined ==
    /\ procs[1].pc = "fail" =>
          procs[1].i = 0 /\ procs[1].newJobs = 0 /\ procs[1].skipped = 0
    /\ procs[1].pc = "close" =>
          Cardinality({ k \in DOMAIN procs[1].batch : ~Handled(procs[1].batch[k].url) })
              <= procs[1].skipped

\* the storage failed on one of two records; the other one was inserted and
\* the call is about to return
C21_Witness ==
    /\ procs[1].pc = "close"
    /\ faults = 1
    /\ Len(procs[1].batch) = 2
    /\ procs[1].batch[1].url # procs[1].batch[2].url
    /\ procs[1].skipped = 1
    /\ procs[1].newJobs = 1
    /\ Cardinality({ k \in DOMAIN procs[1].batch : Handled(procs[1].batch[k].url) }) = 1

\* the rows the cycle k inserted
InsertedBy(k) == { n \in DOMAIN jobs : jobs[n].cyc = k }

\* C22: upsertJobs returns totalJobs = the length of the incoming list and
\* newJobs = the number of rows the call inserted, 0 <= newJobs <= totalJobs,
\* and the completed RunRecord stores these two as jobsFound and newJobs.
C22_CountsReturnedAndStored ==
    /\ procs[1].pc = "close" =>
          /\ procs[1].newJobs = Cardinality(InsertedBy(procs[1].runId))
          /\ 0 <= procs[1].newJobs
          /\ procs[1].newJobs <= Len(procs[1].batch)
    /\ (procs[1].pc = "done" /\ procs[1].result.kind = "completed") =>
          /\ runs[procs[1].runId].status = "completed"
          /\ runs[procs[1].runId].jobsFound = Len(procs[1].batch)
          /\ runs[procs[1].runId].newJobs = Cardinality(InsertedBy(procs[1].runId))

\* a Run completed on a batch of two records of which it inserted one, the
\* other being a repeat or a record it skipped
C22_Witness ==
    /\ procs[1].pc = "done"
    /\ procs[1].result.kind = "completed"
    /\ Len(procs[1].batch) = 2
    /\ runs[procs[1].runId].jobsFound = 2
    /\ runs[procs[1].runId].newJobs = 1
    /\ Cardinality(InsertedBy(procs[1].runId)) = 1

\* C23: clearAllSchedules cancels every armed timer, so that none of them is
\* left to fire, and leaves every key unarmed; called again, or with nothing
\* armed, it changes nothing.
C23_ClearStep ==
    ((\E k \in Keys : activeSchedules[k] # 0) /\ (\A k \in Keys : activeSchedules'[k] = 0)) =>
        /\ timers' = {}
        /\ UNCHANGED <<procs, runs, jobs, nextHandle>>

C23_Idempotent ==
    LET once == clearAllSchedules(activeSchedules, timers)
    IN  /\ clearAllSchedules(once.active, once.pending) = once
        /\ \A k \in Keys : once.active[k] = 0
        /\ once.pending = {}
        /\ (\A k \in Keys : activeSchedules[k] = 0) =>
              once = [active |-> activeSchedules, pending |-> timers]

C23_ClearAllCancels == []C23_Idempotent /\ [][C23_ClearStep]_vars

\* a manual Run armed its key and clearAllSchedules cancelled the timer
\* before it fired: no key is armed, no timer is pending, no Run came of it
C23_Witness ==
    /\ nextHandle = 2
    /\ started = 1
    /\ \A k \in Keys : activeSchedules[k] = 0
    /\ timers = {}
    /\ procs[1].pc = "idle"
    /\ \E k \in DOMAIN runs : Completed(k)

\* C24: a Run requested through POST /api/jobs/scrape is a manual run: when
\* it closes its record as completed, a timer for its (source, keyword) is
\* armed.
C24_Completes(p) ==
    (procs[p].pc = "close" /\ procs'[p].pc = "done" /\ procs'[p].result.kind = "completed") =>
        /\ activeSchedules'[<<procs[p].source, procs[p].keyword>>] # 0
        /\ Live(timers', <<procs[p].source, procs[p].keyword>>) # {}

C24_RouteRunArms == [][\A p \in Procs : C24_Completes(p)]_vars

\* C25: after a Run of 'all' has completed, the cooldown of each source it
\* names has started: until MIN_INTERVAL_HOURS have passed since that
\* completion, canRunScraper refuses 'linkedin' and refuses 'stepstone'.
C25_AllStartsCooldowns ==
    \A k \in DOMAIN runs :
        (/\ Completed(k)
         /\ runs[k].source = "all"
         /\ now - runs[k].completedAt < Minutes(MIN_INTERVAL_HOURS * 60)) =>
            \A s \in ConcreteSources : ~canRunScraper(runs, s, now).canRun

AskedStatus ==
    probe.fn \in {"getScraperStatus", "server/getScraperStatus"} /\ probe.ret # <<>>

\* C26: in every ledger state and at every time the status query agrees
\* with the gate: for each source, canRun of getScraperStatus equals canRun
\* of canRunScraper and minutesUntilNextRun equals minutesUntilNext.
C26_StatusAgreesWithGate ==
    AskedStatus =>
        \A s \in ConcreteSources :
            /\ probe.ret[1][s].canRun = canRunScraper(runs, s, now).canRun
            /\ probe.ret[1][s].minutesUntilNextRun = canRunScraper(runs, s, now).minutesUntilNext

\* the rows flagged new whose source is one the argument names
FreshOf(source) ==
    { n \in DOMAIN jobs : jobs[n].isNew /\ jobs[n].source \in Range(ExpandSources(source)) }

\* C27: when upsertJobs(records, source) returns, no other call having run
\* in between, the rows flagged new whose source matches are exactly the rows
\* the call inserted, and their number is the newJobs it returns.
C27_FreshAreInserted ==
    procs[1].pc = "close" =>
        /\ FreshOf(procs[1].source) = InsertedBy(procs[1].runId)
        /\ Cardinality(FreshOf(procs[1].source)) = procs[1].newJobs

\* upsertJobs of Run p has gone through its batch, which was not empty
Reconciled(p) == procs[p].pc \in {"close", "done"} /\ procs[p].batch # <<>>

BatchUrls(p) == { procs[p].batch[k].url : k \in DOMAIN procs[p].batch }

\* C28: when two upsertJobs calls run at the same time on batches that share
\* a URL not stored before, then under every interleaving of their lookups
\* and inserts, and with no other storage failure, one row is created for
\* the URL, one of the two calls counts it (the two newJobs add up to the
\* rows the two calls inserted), and neither call fails.
C28_ConcurrentInsertOnce ==
    faults = 0 =>
        /\ \A p \in Procs : procs[p].batch # <<>> => procs[p].pc \notin {"fail", "threw"}
        /\ \A p, q \in Procs :
              (p < q /\ Reconciled(p) /\ Reconciled(q)) =>
                  /\ \A u \in BatchUrls(p) \cap BatchUrls(q) :
                        /\ Cardinality(Rows(u)) = 1
                        /\ \E c \in {p, q} :
                              /\ Rows(u) \subseteq InsertedBy(procs[c].runId)
                              /\ procs[c].newJobs = 1
                              /\ \A d \in {p, q} \ {c} : procs[d].newJobs = 0
                  /\ procs[p].newJobs + procs[q].newJobs =
                        Cardinality(InsertedBy(procs[p].runId) \cup InsertedBy(procs[q].runId))

\* both calls looked the URL up before either inserted it: one inserted the
\* row, the other ran into the unique constraint and skipped the record
C28_Witness ==
    /\ faults = 0
    /\ Reconciled(1) /\ Reconciled(2)
    /\ BatchUrls(1) = BatchUrls(2)
    /\ procs[1].skipped + procs[2].skipped = 1
    /\ procs[1].newJobs + procs[2].newJobs = 1
    /\ Len(jobs) = 1

\* C29: the jobs table only grows and keeps its history: no row is deleted,
\* the url, source and firstSeen of a row never change, its lastSeen never
\* decreases, and firstSeen <= lastSeen in every reachable state.
C29_FirstBeforeLast ==
    \A n \in DOMAIN jobs : jobs[n].firstSeen <= jobs[n].lastSeen

C29_RowStep ==
    /\ Len(jobs') >= Len(jobs)
    /\ \A n \in DOMAIN jobs :
          /\ jobs'[n].url = jobs[n].url
          /\ jobs'[n].source = jobs[n].source
          /\ jobs'[n].firstSeen = jobs[n].firstSeen
          /\ jobs'[n].lastSeen >= jobs[n].lastSeen

C29_StoreOnlyGrows == []C29_FirstBeforeLast /\ [][C29_RowStep]_vars

\* a row first seen by one Run was seen again by a later Run: it is stale,
\* its lastSeen and updatedAt have moved, its firstSeen and createdAt have not
C29_Witness ==
    \E n \in DOMAIN jobs :
        /\ jobs[n].lastSeen > jobs[n].firstSeen
        /\ jobs[n].updatedAt = jobs[n].lastSeen
        /\ jobs[n].createdAt = jobs[n].firstSeen
        /\ ~jobs[n].isNew
        /\ \E k \in DOMAIN runs : k # jobs[n].cyc /\ Completed(k) /\ runs[k].jobsFound = 1

\* C30: after clearAllSchedules no key becomes armed, and so no automatic Run
\* starts, until a manual Run completes; an automatic Run in flight when
\* clearAllSchedules was called does not arm its key when it ends.  (A timer
\* that fired stays in activeSchedules until its key is armed again or the
\* map is cleared: an automatic Run whose key the map does not hold ends
\* after a clearAllSchedules that no arming has followed.)
C30_Ended(p) ==
    (/\ procs[p].auto
     /\ procs[p].pc \in {"done", "threw"}
     /\ procs'[p].pc = "idle"
     /\ activeSchedules[<<procs[p].source, procs[p].keyword>>] = 0) =>
        /\ activeSchedules'[<<procs[p].source, procs[p].keyword>>] = 0
        /\ timers' = timers

C30_ClearedStaysCleared == [][\A p \in Procs : C30_Ended(p)]_vars

====
